---------------------------- MODULE Spec2Model ----------------------------
(***************************************************************************)
(* Validate-Branch VS Code extension (src/extension.js): the convention    *)
(* engine (in-process validators), the hook script synthesizer (the four   *)
(* rendered shell scripts and what /bin/sh does with them) and the hook    *)
(* lifecycle (install / detect / remove on the .git/hooks directory).      *)
(*                                                                         *)
(* Text is a sequence of tokens.  A token is either one character that     *)
(* matters to the shell or to the regular-expression engines (a quote, a   *)
(* backquote, "$", "^", "(", a newline, the letter "z", ...) or an opaque   *)
(* run of characters none of which is special ("feature", "jira", a fixed  *)
(* chunk of a template line).  A file is a sequence of lines, a line a     *)
(* sequence of tokens.                                                     *)
(***************************************************************************)
EXTENDS Naturals, Sequences, FiniteSets, TLC

VARIABLES
    hasWorkspace,   \* vscode.workspace.workspaceFolders is non-empty
    hooksDir,       \* <workspace>/.git/hooks exists
    files,          \* the four conventional hook files
    settings,       \* <workspace>/.vscode/settings.json
    notification,   \* last message shown by the install and remove commands
    statusBar,      \* statusBarItem.text
    timers,         \* pending setTimeout(updateStatusBar, 100) callbacks
    events,         \* number of environment events so far: edits made outside the
                    \* extension, workspace folders opened or closed, failed
                    \* filesystem calls
    lastOp,         \* the hook-lifecycle operation that has just returned
    cfg,            \* configuration under which a script is rendered / a subject validated
    subject,        \* branch name or commit message under test
    hookRes,        \* outcome of the last run of a rendered hook script
    valRes,         \* outcome of the last in-process validation
    userSettings,   \* validateBranch.* keys of the user-level settings
    inflight,       \* command invocations suspended at a prompt or at the git runner
    done,           \* the command invocation that has just finished
    started,        \* number of validation commands invoked so far
    active,         \* the extension is activated (between activate and deactivate)
    writing,        \* the installGitHooks call that is between two filesystem calls
    observed        \* what a git process last found when it opened a hook file

vars == <<hasWorkspace, hooksDir, files, settings, notification, statusBar,
          timers, events, lastOp, cfg, subject, hookRes, valRes,
          userSettings, inflight, done, started, active, writing, observed>>

lifecycleVars == <<hasWorkspace, hooksDir, files, settings, notification,
                   statusBar, timers, events, lastOp>>

engineVars == <<cfg, subject, hookRes, valRes>>

commandVars == <<userSettings, inflight, done, started>>

processVars == <<active, writing, observed>>

-----------------------------------------------------------------------------
(* Bounds of the model.                                                    *)

MaxPatLen == 3      \* longest custom pattern text, in tokens
MaxSubjLen == 1     \* longest enumerated subject over the small alphabet
MaxPushLines == 2   \* most ref-update lines on the standard input of pre-push
MaxTimers == 1      \* most pending status-bar timers
MaxEvents == 2      \* most environment events (outside edits, folder changes, failed calls)
MaxFaults == 1      \* most hook files whose read or unlink fails in one remove
MaxCommands == 2    \* most invocations of the validation commands

-----------------------------------------------------------------------------
(* Tokens.                                                                 *)

DQ == "\""
BQ == "<backquote>"
NL == "\n"
SP == " "

RECURSIVE SeqsUpTo(_, _)
SeqsUpTo(S, n) ==
    IF n = 0 THEN {<<>>}
    ELSE LET shorter == SeqsUpTo(S, n - 1)
         IN  shorter \cup {Append(s, x) : s \in {t \in shorter : Len(t) = n - 1}, x \in S}

Min(a, b) == IF a < b THEN a ELSE b

Range(s) == {s[i] : i \in 1..Len(s)}

BranchTypeToks == {"feature", "bugfix", "hotfix", "release", "chore"}
CommitTypeToks == {"feat", "fix", "docs", "style", "refactor", "test", "chore"}
UpperToks == {"Z", "HEAD"}
DigitToks == {"1"}
LowerToks == {"z", "main", "jira", "custom", "gitflow", "conventional"} \cup BranchTypeToks \cup CommitTypeToks
PunctToks == {"/", "-", "[", "]", "(", ")", ":", SP, DQ, BQ, "^", "$"}
AllToks == UpperToks \cup DigitToks \cup LowerToks \cup PunctToks \cup {NL}

\* Tokens that begin a shell variable name.
NameToks == LowerToks \cup UpperToks

-----------------------------------------------------------------------------
(* Regular expressions.  A compiled expression is a sequence of items: the *)
(* assertions "^" and "$" and quantified character classes.  The sources   *)
(* of the named conventions and the custom pattern texts are token         *)
(* sequences; RegExpCompile is what new RegExp(text) and grep -E make of   *)
(* one (for the tokens of this model the two dialects agree).              *)

MaxCommitSubject == 80

\* max = 0 stands for "no upper limit".
Item(k, set, min, max) == [k |-> k, set |-> set, min |-> min, max |-> max]

AtomOf(tok) ==
    CASE tok = "^" -> Item("start", {}, 0, 0)
      [] tok = "$" -> Item("end", {}, 0, 0)
      [] tok = "(" -> Item("bad", {}, 0, 0)      \* an unterminated group
      [] tok = "(feature|bugfix|hotfix|release|chore)" -> Item("set", BranchTypeToks, 1, 1)
      [] tok = "(feat|fix|docs|style|refactor|test|chore)" -> Item("set", CommitTypeToks, 1, 1)
      [] tok = "[A-Z]+" -> Item("set", UpperToks, 1, 0)
      [] tok = "[0-9]+" -> Item("set", DigitToks, 1, 0)
      [] tok = "[a-z0-9-]+" -> Item("set", LowerToks \cup DigitToks \cup {"-"}, 1, 0)
      [] tok = ".{1,80}" -> Item("set", AllToks \ {NL}, 1, MaxCommitSubject)
      [] tok = "\\/" -> Item("set", {"/"}, 1, 1)
      [] tok = "\\[" -> Item("set", {"["}, 1, 1)
      [] tok = "\\]" -> Item("set", {"]"}, 1, 1)
      [] tok = "\\(" -> Item("set", {"("}, 1, 1)
      [] tok = "\\)" -> Item("set", {")"}, 1, 1)
      [] OTHER -> Item("set", {tok}, 1, 1)

RegExpCompile(text) ==
    [ok |-> \A i \in 1..Len(text) : AtomOf(text[i]).k # "bad",
     items |-> [i \in 1..Len(text) |-> AtomOf(text[i])]]

\* items[k..] match s from position pos on (not necessarily to its end).
RECURSIVE MatchAt(_, _, _, _)
MatchAt(items, k, s, pos) ==
    IF k > Len(items) THEN TRUE
    ELSE LET it == items[k]
         IN  CASE it.k = "start" -> pos = 1 /\ MatchAt(items, k + 1, s, pos)
               [] it.k = "end" -> pos = Len(s) + 1 /\ MatchAt(items, k + 1, s, pos)
               [] OTHER ->
                    \E n \in it.min..(IF it.max = 0 THEN Len(s) + 1 - pos
                                      ELSE Min(it.max, Len(s) + 1 - pos)) :
                        /\ \A j \in pos..(pos + n - 1) : s[j] \in it.set
                        /\ MatchAt(items, k + 1, s, pos + n)

\* RegExp.prototype.test without flags: a match anywhere in the whole input;
\* "^" and "$" are the two ends of the input and no class matches a newline.
RegExpTest(items, s) == \E pos \in 1..(Len(s) + 1) : MatchAt(items, 1, s, pos)

\* src/extension.js:11-18.  The regular-expression literals, token by token.
BRANCH_PATTERNS(id) ==
    IF id = <<"jira">>
    THEN RegExpCompile(<<"^", "(feature|bugfix|hotfix|release|chore)", "\\/", "[A-Z]+", "-",
                         "[0-9]+", "-", "[a-z0-9-]+", "$">>)
    ELSE [ok |-> FALSE, items |-> <<>>]       \* undefined

COMMIT_PATTERNS(id) ==
    IF id = <<"jira">>
    THEN RegExpCompile(<<"^", "\\[", "[A-Z]+", "-", "[0-9]+", "\\]", SP,
                         "(feat|fix|docs|style|refactor|test|chore)", "\\(", "[a-z0-9-]+",
                         "\\)", ":", SP, ".{1,80}", "$">>)
    ELSE [ok |-> FALSE, items |-> <<>>]       \* undefined

-----------------------------------------------------------------------------
(* The in-process validators (src/extension.js:178-223).  config is the    *)
(* value of getConfig() read inside the function.                          *)

Verdict(ok, error) == [ok |-> ok, error |-> error]

validateBranchName(branchName, pattern, config) ==
    IF pattern = <<"custom">> /\ config.customBranchPattern # <<>>
    THEN LET regex == RegExpCompile(config.customBranchPattern)
         IN  IF ~regex.ok
             THEN Verdict(FALSE, "Invalid custom branch pattern in settings")
             ELSE Verdict(RegExpTest(regex.items, branchName), "")
    ELSE LET regex == BRANCH_PATTERNS(pattern)
         IN  IF ~regex.ok THEN Verdict(FALSE, "")
             ELSE Verdict(RegExpTest(regex.items, branchName), "")

validateCommitMessage(message, pattern, config) ==
    IF pattern = <<"custom">> /\ config.customCommitPattern # <<>>
    THEN LET regex == RegExpCompile(config.customCommitPattern)
         IN  IF ~regex.ok
             THEN Verdict(FALSE, "Invalid custom commit pattern in settings")
             ELSE Verdict(RegExpTest(regex.items, message), "")
    ELSE LET regex == COMMIT_PATTERNS(pattern)
         IN  IF ~regex.ok THEN Verdict(FALSE, "")
             ELSE Verdict(RegExpTest(regex.items, message), "")

-----------------------------------------------------------------------------
(* Configuration (src/extension.js:49-97).                                 *)

Config(bp, cp, eb, ec, cbp, ccp) ==
    [branchPattern |-> bp, commitPattern |-> cp,
     enableBranchValidation |-> eb, enableCommitValidation |-> ec,
     customBranchPattern |-> cbp, customCommitPattern |-> ccp]

DefaultConfig == Config(<<"jira">>, <<"jira">>, TRUE, TRUE, <<>>, <<>>)

\* A settings file: status is "missing", "unreadable" (readFileSync throws),
\* "malformed" (JSON.parse throws) or "ok"; for "ok" the
\* other fields are the values of the six validateBranch.* keys, a string key
\* that is absent or empty being <<>> and a flag being "undef", "true" or
\* "false".
SettingsFile(status, bp, cp, eb, ec, cbp, ccp) ==
    [status |-> status, branchPattern |-> bp, commitPattern |-> cp,
     enableBranchValidation |-> eb, enableCommitValidation |-> ec,
     customBranchPattern |-> cbp, customCommitPattern |-> ccp]

\* getHookConfig without its catch: a file that cannot be read or parsed
\* leaves no configuration at all.
getHookConfigPropagating(s) ==
    IF s.status = "missing" THEN DefaultConfig
    ELSE IF s.status \in {"unreadable", "malformed"}
    THEN Config(<<>>, <<>>, FALSE, FALSE, <<>>, <<>>)
    ELSE Config(IF s.branchPattern # <<>> THEN s.branchPattern ELSE <<"jira">>,
                IF s.commitPattern # <<>> THEN s.commitPattern ELSE <<"jira">>,
                s.enableBranchValidation # "false",
                s.enableCommitValidation # "false",
                s.customBranchPattern,
                s.customCommitPattern)

getHookConfig(s) ==
    IF s.status = "missing" THEN DefaultConfig
    ELSE IF s.status = "unreadable" THEN DefaultConfig       \* readFileSync throws
    ELSE IF s.status = "malformed" THEN DefaultConfig        \* JSON.parse throws
    ELSE Config(IF s.branchPattern # <<>> THEN s.branchPattern ELSE <<"jira">>,
                IF s.commitPattern # <<>> THEN s.commitPattern ELSE <<"jira">>,
                s.enableBranchValidation # "false",
                s.enableCommitValidation # "false",
                s.customBranchPattern,
                s.customCommitPattern)

-----------------------------------------------------------------------------
(* What /bin/sh makes of one command line of a rendered script.  The line  *)
(* is scanned from outside any quote; the shell cannot tell a quote of the *)
(* template from a quote that came with the embedded text.                 *)
(*   mode    "out" or "dq" (inside double quotes)                          *)
(*   word    the word being assembled, open = it has begun                 *)
(*   words   the finished words of the command                             *)
(*   subs    the commands run by command substitution, in order            *)
(*   broken  the line does not parse                                       *)

ScanInit ==
    [mode |-> "out", word |-> <<>>, open |-> FALSE, words |-> <<>>,
     subs |-> <<>>, broken |-> FALSE]

\* Index of the first tok at or after position i, 0 if there is none.
RECURSIVE NextIndex(_, _, _)
NextIndex(line, i, tok) ==
    IF i > Len(line) THEN 0
    ELSE IF line[i] = tok THEN i
    ELSE NextIndex(line, i + 1, tok)

EndWord(st) ==
    IF st.open
    THEN [st EXCEPT !.words = Append(st.words, st.word), !.word = <<>>, !.open = FALSE]
    ELSE st

Literal(st, tok) == [st EXCEPT !.word = Append(st.word, tok), !.open = TRUE]

RECURSIVE Scan(_, _, _)
Scan(line, i, st) ==
    IF st.broken THEN st
    ELSE IF i > Len(line)
    THEN IF st.mode = "dq" THEN [st EXCEPT !.broken = TRUE]   \* unterminated quoted string
         ELSE EndWord(st)
    ELSE LET tok == line[i]
         IN  CASE tok = DQ ->
                    Scan(line, i + 1,
                         [st EXCEPT !.mode = IF st.mode = "dq" THEN "out" ELSE "dq",
                                    !.open = TRUE])
               [] tok = BQ ->
                    LET j == NextIndex(line, i + 1, BQ)
                    IN  IF j = 0 THEN [st EXCEPT !.broken = TRUE]
                        ELSE Scan(line, j + 1,
                                  [st EXCEPT !.subs = Append(st.subs, SubSeq(line, i + 1, j - 1)),
                                             !.open = TRUE])
               [] tok = "$" /\ i < Len(line) /\ line[i + 1] = "(" ->
                    LET j == NextIndex(line, i + 2, ")")
                    IN  IF j = 0 THEN [st EXCEPT !.broken = TRUE]
                        ELSE Scan(line, j + 1,
                                  [st EXCEPT !.subs = Append(st.subs, SubSeq(line, i + 2, j - 1)),
                                             !.open = TRUE])
               [] tok = "$" /\ i < Len(line) /\ line[i + 1] \in NameToks ->
                    \* expansion of a variable the script never sets: empty
                    Scan(line, i + 2, st)
               [] tok \in {"(", ")"} /\ st.mode = "out" ->
                    [st EXCEPT !.broken = TRUE]
               [] tok = SP /\ st.mode = "out" ->
                    Scan(line, i + 1, EndWord(st))
               [] OTHER ->
                    Scan(line, i + 1, Literal(st, tok))

Sh(line) == Scan(line, 1, ScanInit)

-----------------------------------------------------------------------------
(* JavaScript template literals: the cooked value of an escape sequence.   *)
(* A backslash before a character that starts no escape yields the         *)
(* character itself.                                                       *)

CookToken(tok) == IF tok = "\\/" THEN "/" ELSE tok

TemplateCook(text) == [i \in 1..Len(text) |-> CookToken(text[i])]

-----------------------------------------------------------------------------
(* generateBranchValidationScript / generateCommitValidationScript         *)
(* (src/extension.js:102-173): the lines of the shell function.            *)

BranchPatternStrings(id) ==
    IF id = <<"jira">>
    THEN <<"^", "(feature|bugfix|hotfix|release|chore)", "/", "[A-Z]+", "-", "[0-9]+", "-",
           "[a-z0-9-]+", "$">>
    ELSE <<>>                                   \* undefined

CommitPatternStrings(id) ==
    IF id = <<"jira">>
    THEN <<"^", "\\[", "[A-Z]+", "-", "[0-9]+", "\\]", SP,
           "(feat|fix|docs|style|refactor|test|chore)", "\\(", "[a-z0-9-]+", "\\)", ":", SP,
           ".{1,80}", "$">>
    ELSE <<>>                                   \* undefined

getBranchExamples(id) ==
    <<"feature/APC-2876-user-auth", "bugfix/APC-1234-login-fix",
      "hotfix/APC-5678-security-patch", "release/APC-9999-v2-release",
      "chore/APC-1111-update-deps">>

getCommitExamples(id) ==
    <<"[APC-2356] feat(auth): Add Login Functionality",
      "[APC-1234] fix(ui): Resolve button alignment issue",
      "[APC-5678] docs(readme): Update installation guide",
      "[APC-9999] refactor(api): Simplify user service">>

ExampleLines(exampleList) ==
    [i \in 1..Len(exampleList) |-> <<"echo", SP, DQ, "  ", exampleList[i], DQ>>]

generateBranchValidationScript(config) ==
    LET pattern == IF config.branchPattern = <<"custom">> /\ config.customBranchPattern # <<>>
                   THEN config.customBranchPattern
                   ELSE IF BranchPatternStrings(config.branchPattern) # <<>>
                        THEN BranchPatternStrings(config.branchPattern)
                        ELSE BranchPatternStrings(<<"jira">>)
        exampleList == IF config.branchPattern = <<"custom">>
                       THEN <<"custom-pattern-example">>
                       ELSE getBranchExamples(config.branchPattern)
    IN  << <<"validate_branch_name() {">>,
           <<"local branch_name=\"$1\"">>,
           <<"local", SP, "pattern=", DQ>> \o pattern \o <<DQ>>,
           <<"if ! echo \"$branch_name\" | grep -qE \"$pattern\"; then">>,
           <<"echo", SP, DQ, "Branch name '$branch_name' doesn't follow the ">>
               \o config.branchPattern \o <<" convention.", DQ>>,
           <<"echo \"Examples:\"">> >>
        \o ExampleLines(exampleList)
        \o << <<"echo \"Current pattern: $pattern\"">>,
              <<"return 1">>, <<"fi">>, <<"return 0">>, <<"}">> >>

generateCommitValidationScript(config) ==
    LET pattern == IF config.commitPattern = <<"custom">> /\ config.customCommitPattern # <<>>
                   THEN config.customCommitPattern
                   ELSE IF CommitPatternStrings(config.commitPattern) # <<>>
                        THEN CommitPatternStrings(config.commitPattern)
                        ELSE CommitPatternStrings(<<"jira">>)
        exampleList == IF config.commitPattern = <<"custom">>
                       THEN <<"custom-pattern-example">>
                       ELSE getCommitExamples(config.commitPattern)
    IN  << <<"validate_commit_message() {">>,
           <<"local commit_message=\"$1\"">>,
           <<"local", SP, "pattern=", DQ>> \o pattern \o <<DQ>>,
           <<"if ! echo \"$commit_message\" | grep -qE \"$pattern\"; then">>,
           <<"echo", SP, DQ, "Commit message doesn't follow the ">>
               \o config.commitPattern \o <<" convention.", DQ>>,
           <<"echo \"Examples:\"">> >>
        \o ExampleLines(exampleList)
        \o << <<"echo \"Current pattern: $pattern\"">>,
              <<"return 1">>, <<"fi">>, <<"return 0">>, <<"}">> >>

-----------------------------------------------------------------------------
(* The four hook scripts rendered by installGitHooks                       *)
(* (src/extension.js:337-437), blank lines left out.                       *)

SIGNATURE == "# VS Code Validate Branch Extension"

HookNames == {"pre-commit", "commit-msg", "post-checkout", "pre-push"}

BoolText(b) == IF b THEN "true" ELSE "false"

SedExpression == TemplateCook(<<"s", "/", "refs", "\\/", "heads", "\\/", "/", "/">>)

\* preCommitContent with the signature left out of its header.
preCommitContentUnsigned(config) ==
    << <<"#!/bin/sh">>,
       <<"# Pre-commit hook">>,
       <<"# This hook validates the current branch name before allowing commits">> >>
    \o (IF config.enableBranchValidation THEN generateBranchValidationScript(config) ELSE <<>>)
    \o << <<"if [ ", DQ, BoolText(config.enableBranchValidation), DQ, " = \"true\" ]; then">>,
          <<"current_branch=$(git branch --show-current 2>/dev/null || git rev-parse --abbrev-ref HEAD 2>/dev/null)">>,
          <<"if [ -n \"$current_branch\" ] && [ \"$current_branch\" != \"HEAD\" ]; then">>,
          <<"if ! validate_branch_name \"$current_branch\"; then">>,
          <<"exit 1">>, <<"fi">>, <<"fi">>, <<"fi">>,
          <<"echo \"Branch name validation passed\"">> >>

preCommitContent(config) ==
    << <<"#!/bin/sh">>,
       <<SIGNATURE, " - Pre-commit hook">>,
       <<"# This hook validates the current branch name before allowing commits">> >>
    \o (IF config.enableBranchValidation THEN generateBranchValidationScript(config) ELSE <<>>)
    \o << <<"if [ ", DQ, BoolText(config.enableBranchValidation), DQ, " = \"true\" ]; then">>,
          <<"current_branch=$(git branch --show-current 2>/dev/null || git rev-parse --abbrev-ref HEAD 2>/dev/null)">>,
          <<"if [ -n \"$current_branch\" ] && [ \"$current_branch\" != \"HEAD\" ]; then">>,
          <<"if ! validate_branch_name \"$current_branch\"; then">>,
          <<"exit 1">>, <<"fi">>, <<"fi">>, <<"fi">>,
          <<"echo \"Branch name validation passed\"">> >>

\* commitMsgContent with the signature left out of its header.
commitMsgContentUnsigned(config) ==
    << <<"#!/bin/sh">>,
       <<"# Commit message hook">>,
       <<"# This hook validates commit messages">> >>
    \o (IF config.enableCommitValidation THEN generateCommitValidationScript(config) ELSE <<>>)
    \o << <<"if [ ", DQ, BoolText(config.enableCommitValidation), DQ, " = \"true\" ]; then">>,
          <<"commit_message=$(cat \"$1\")">>,
          <<"if ! validate_commit_message \"$commit_message\"; then">>,
          <<"exit 1">>, <<"fi">>, <<"fi">>,
          <<"echo \"Commit message validation passed\"">> >>

commitMsgContent(config) ==
    << <<"#!/bin/sh">>,
       <<SIGNATURE, " - Commit message hook">>,
       <<"# This hook validates commit messages">> >>
    \o (IF config.enableCommitValidation THEN generateCommitValidationScript(config) ELSE <<>>)
    \o << <<"if [ ", DQ, BoolText(config.enableCommitValidation), DQ, " = \"true\" ]; then">>,
          <<"commit_message=$(cat \"$1\")">>,
          <<"if ! validate_commit_message \"$commit_message\"; then">>,
          <<"exit 1">>, <<"fi">>, <<"fi">>,
          <<"echo \"Commit message validation passed\"">> >>

prePushContent(config) ==
    << <<"#!/bin/sh">>,
       <<SIGNATURE, " - Pre-push hook">>,
       <<"# This hook validates branch names before they are pushed to remote">> >>
    \o (IF config.enableBranchValidation THEN generateBranchValidationScript(config) ELSE <<>>)
    \o << <<"if [ ", DQ, BoolText(config.enableBranchValidation), DQ, " = \"true\" ]; then">>,
          <<"while read local_ref local_sha remote_ref remote_sha; do">>,
          <<"if [ \"$local_ref\" != \"(delete)\" ]; then">>,
          <<"branch_name=$(echo \"$local_ref\" | sed '">> \o SedExpression \o <<"')">>,
          <<"if [ -n \"$branch_name\" ]; then">>,
          <<"if ! validate_branch_name \"$branch_name\"; then">>,
          <<"exit 1">>, <<"fi">>, <<"fi">>, <<"fi">>, <<"done">>, <<"fi">>,
          <<"echo \"Branch name validation passed for push\"">> >>

postCheckoutContent(config) ==
    << <<"#!/bin/sh">>,
       <<SIGNATURE, " - Post-checkout hook">>,
       <<"# This hook warns about invalid branch names after checkout or branch creation">> >>
    \o (IF config.enableBranchValidation THEN generateBranchValidationScript(config) ELSE <<>>)
    \o << <<"previous_head=$1">>, <<"new_head=$2">>, <<"branch_flag=$3">>,
          <<"if [ \"$branch_flag\" = \"1\" ] && [ ", DQ,
            BoolText(config.enableBranchValidation), DQ, " = \"true\" ]; then">>,
          <<"current_branch=$(git branch --show-current 2>/dev/null || git rev-parse --abbrev-ref HEAD 2>/dev/null)">>,
          <<"if [ -n \"$current_branch\" ] && [ \"$current_branch\" != \"HEAD\" ]; then">>,
          <<"if ! validate_branch_name \"$current_branch\"; then">>,
          <<"echo \"WARNING: Branch name '$current_branch' doesn't follow naming conventions!\"">>,
          <<"else">>,
          <<"echo", SP, DQ, "Branch name follows ">> \o config.branchPattern
              \o <<" convention", DQ>>,
          <<"fi">>, <<"fi">>, <<"fi">> >>

HookContent(hook, config) ==
    CASE hook = "pre-commit" -> preCommitContent(config)
      [] hook = "commit-msg" -> commitMsgContent(config)
      [] hook = "pre-push" -> prePushContent(config)
      [] OTHER -> postCheckoutContent(config)

-----------------------------------------------------------------------------
(* Running a rendered script under /bin/sh.  The fixed lines of the        *)
(* templates are followed as written; the lines that carry embedded text   *)
(* go through Sh.                                                          *)

\* The lines of the input of grep: echo writes its argument and a newline.
RECURSIVE InputLines(_)
InputLines(s) ==
    LET i == NextIndex(s, 1, NL)
    IN  IF i = 0 THEN {s}
        ELSE {SubSeq(s, 1, i - 1)} \cup InputLines(SubSeq(s, i + 1, Len(s)))

\* echo "$subject" | grep -qE "$pattern": status 0 iff some line matches.
GrepQE(patternText, input) ==
    LET regex == RegExpCompile(patternText)
    IN  regex.ok /\ \E l \in InputLines(input) : RegExpTest(regex.items, l)

\* $(command) drops the trailing newlines of the output.
RECURSIVE StripTrailingNewlines(_)
StripTrailingNewlines(s) ==
    IF s # <<>> /\ s[Len(s)] = NL THEN StripTrailingNewlines(SubSeq(s, 1, Len(s) - 1))
    ELSE s

\* Index of the first occurrence of p in s at or after i, 0 if there is none.
RECURSIVE FindSub(_, _, _)
FindSub(s, p, i) ==
    IF i + Len(p) - 1 > Len(s) THEN 0
    ELSE IF SubSeq(s, i, i + Len(p) - 1) = p THEN i
    ELSE FindSub(s, p, i + 1)

\* sed 's<d>pattern<d>replacement<d>flags': the output for one input line,
\* nothing when the expression is rejected.
SedSubstitute(expr, input) ==
    LET d == expr[2]
        i1 == NextIndex(expr, 3, d)
        i2 == IF i1 = 0 THEN 0 ELSE NextIndex(expr, i1 + 1, d)
        flags == SubSeq(expr, i2 + 1, Len(expr))
        valid == i1 # 0 /\ i2 # 0 /\ Range(flags) \subseteq {"g", "p"}
        raw == SubSeq(expr, 3, i1 - 1)
        pat == [k \in 1..Len(raw) |-> IF raw[k] = "\\/" THEN "/" ELSE raw[k]]
        rep == SubSeq(expr, i1 + 1, i2 - 1)
        at == FindSub(input, pat, 1)
    IN  IF ~valid THEN <<>>
        ELSE IF at = 0 \/ pat = <<>> THEN input
        ELSE SubSeq(input, 1, at - 1) \o rep \o SubSeq(input, at + Len(pat), Len(input))

IsShellLine(line) == Len(line) > 1 /\ line[1] \in {"local", "echo"}

\* A line of the script that does not parse: sh stops with status 2.
SyntaxError(script) == \E i \in 1..Len(script) : IsShellLine(script[i]) /\ Sh(script[i]).broken

RECURSIVE LineIndex(_, _, _)
LineIndex(script, i, first) ==
    IF i > Len(script) THEN 0
    ELSE IF script[i][1] = first THEN i
    ELSE LineIndex(script, i + 1, first)

\* The text between the quotes of [ "<flag>" = "true" ].
EnabledFlag(script, first) == script[LineIndex(script, 1, first)][3]

\* validate_branch_name / validate_commit_message called with subj:
\* rc is the return status, subs the substituted commands that ran.
CallValidate(script, subj) ==
    LET def == LineIndex(script, 1, "local")
    IN  IF def = 0 THEN [rc |-> 127, subs |-> <<>>]         \* function not defined
        ELSE LET assign == Sh(script[def])
                 pattern == Tail(assign.words[2])            \* after "pattern="
                 report == Sh(script[def + 2])
             IN  IF GrepQE(pattern, subj)
                 THEN [rc |-> 0, subs |-> assign.subs]
                 ELSE [rc |-> 1, subs |-> assign.subs \o report.subs]

HookResult(hook, input, exit, subs, validated, warned) ==
    [hook |-> hook, input |-> input, exit |-> exit, subs |-> subs,
     validated |-> validated, warned |-> warned]

RunPreCommit(script, currentBranch) ==
    IF SyntaxError(script)
    THEN HookResult("pre-commit", <<currentBranch>>, 2, <<>>, <<>>, FALSE)
    ELSE IF EnabledFlag(script, "if [ ") = "true"
            /\ currentBranch # <<>> /\ currentBranch # <<"HEAD">>
    THEN LET r == CallValidate(script, currentBranch)
         IN  HookResult("pre-commit", <<currentBranch>>, IF r.rc # 0 THEN 1 ELSE 0, r.subs,
                        <<currentBranch>>, FALSE)
    ELSE HookResult("pre-commit", <<currentBranch>>, 0, <<>>, <<>>, FALSE)

RunCommitMsg(script, messageFile) ==
    IF SyntaxError(script)
    THEN HookResult("commit-msg", <<messageFile>>, 2, <<>>, <<>>, FALSE)
    ELSE IF EnabledFlag(script, "if [ ") = "true"
    THEN LET commit_message == StripTrailingNewlines(messageFile)
             r == CallValidate(script, commit_message)
         IN  HookResult("commit-msg", <<messageFile>>, IF r.rc # 0 THEN 1 ELSE 0, r.subs,
                        <<commit_message>>, FALSE)
    ELSE HookResult("commit-msg", <<messageFile>>, 0, <<>>, <<>>, FALSE)

\* The while-read loop from line i of the standard input on.
RECURSIVE PushLoop(_, _, _, _)
PushLoop(script, stdin, i, acc) ==
    IF i > Len(stdin) THEN acc
    ELSE IF stdin[i] = <<"(delete)">> THEN PushLoop(script, stdin, i + 1, acc)
    ELSE LET sedLine == script[LineIndex(script, 1, "branch_name=$(echo \"$local_ref\" | sed '")]
             branch_name == SedSubstitute(SubSeq(sedLine, 2, Len(sedLine) - 1), stdin[i])
         IN  IF branch_name = <<>> THEN PushLoop(script, stdin, i + 1, acc)
             ELSE LET r == CallValidate(script, branch_name)
                      next == [acc EXCEPT !.subs = acc.subs \o r.subs,
                                          !.validated = Append(acc.validated, branch_name)]
                  IN  IF r.rc # 0 THEN [next EXCEPT !.exit = 1]
                      ELSE PushLoop(script, stdin, i + 1, next)

RunPrePush(script, stdin) ==
    IF SyntaxError(script)
    THEN HookResult("pre-push", stdin, 2, <<>>, <<>>, FALSE)
    ELSE IF EnabledFlag(script, "if [ ") = "true"
    THEN PushLoop(script, stdin, 1, HookResult("pre-push", stdin, 0, <<>>, <<>>, FALSE))
    ELSE HookResult("pre-push", stdin, 0, <<>>, <<>>, FALSE)

RunPostCheckout(script, branch_flag, currentBranch) ==
    LET input == <<branch_flag, currentBranch>>
    IN  IF SyntaxError(script)
        THEN HookResult("post-checkout", input, 2, <<>>, <<>>, FALSE)
        ELSE IF branch_flag = <<"1">>
                /\ EnabledFlag(script, "if [ \"$branch_flag\" = \"1\" ] && [ ") = "true"
                /\ currentBranch # <<>> /\ currentBranch # <<"HEAD">>
        THEN LET r == CallValidate(script, currentBranch)
                 follows == Sh(script[LineIndex(script, 1, "else") + 1])
             IN  IF r.rc # 0
                 THEN HookResult("post-checkout", input, 0, r.subs, <<currentBranch>>, TRUE)
                 ELSE HookResult("post-checkout", input, 0, r.subs \o follows.subs,
                                 <<currentBranch>>, FALSE)
        ELSE HookResult("post-checkout", input, 0, <<>>, <<>>, FALSE)

-----------------------------------------------------------------------------
(* The hooks directory.                                                    *)

NoFile == [exists |-> FALSE, content |-> <<>>, exec |-> FALSE]

File(content, exec) == [exists |-> TRUE, content |-> content, exec |-> exec]

\* String.prototype.includes on the content of a file.
Includes(content, text) ==
    \E i \in 1..Len(content) : \E j \in 1..Len(content[i]) : content[i][j] = text

\* The order of the writes of installGitHooks (src/extension.js:445-448).
WriteOrder == <<"pre-commit", "commit-msg", "post-checkout", "pre-push">>

\* fs.writeFileSync(path, content, { mode: 0o755 }): the mode is applied
\* only when the file is created.
writeFileSync(file, content) ==
    File(content, IF file.exists THEN file.exec ELSE TRUE)

\* removeGitHooks without the signature check.
removeGitHooksUnchecked(fs, failing) ==
    [h \in HookNames |-> IF fs[h].exists /\ h \notin failing THEN NoFile ELSE fs[h]]

\* removeGitHooks with pre-commit missing from the list it walks.
removeGitHooksSkipFirst(fs, failing) ==
    [h \in HookNames |->
        IF h # "pre-commit" /\ fs[h].exists /\ h \notin failing
           /\ Includes(fs[h].content, SIGNATURE)
        THEN NoFile
        ELSE fs[h]]

\* removeGitHooks (src/extension.js:293-322).  failing is the set of hook
\* files whose readFileSync or unlinkSync throws; the per-file catch logs
\* the error and the loop goes on.
removeGitHooks(fs, failing) ==
    [h \in HookNames |->
        IF fs[h].exists /\ h \notin failing /\ Includes(fs[h].content, SIGNATURE)
        THEN NoFile
        ELSE fs[h]]

\* installGitHooks that leaves alone a hook file it did not write itself.
installGitHooksKeepingUserHooks(dir, fs, config, mkdirFails, failWrite, torn) ==
    LET dirError == ~dir /\ mkdirFails
        written == IF dirError THEN 0
                   ELSE IF failWrite = 0 THEN Len(WriteOrder)
                   ELSE failWrite - 1
        pos(h) == CHOOSE i \in 1..Len(WriteOrder) : WriteOrder[i] = h
    IN  [dir |-> dir \/ ~dirError,
         files |-> [h \in HookNames |->
                       IF pos(h) <= written
                          /\ (fs[h].exists => Includes(fs[h].content, SIGNATURE))
                       THEN writeFileSync(fs[h], HookContent(h, config))
                       ELSE IF ~dirError /\ torn /\ pos(h) = failWrite
                       THEN writeFileSync(fs[h], <<>>)
                       ELSE fs[h]],
         ok |-> ~dirError /\ failWrite = 0]

\* installGitHooks (src/extension.js:327-468).  mkdirFails: mkdirSync
\* throws (it is called only when the directory is missing); failWrite: the
\* position in WriteOrder of the writeFileSync that throws, 0 for none;
\* torn: that writeFileSync throws after it has opened its file, which
\* creates or truncates it (a full disk, an I/O error), not at the open.
installGitHooks(dir, fs, config, mkdirFails, failWrite, torn) ==
    LET dirError == ~dir /\ mkdirFails
        written == IF dirError THEN 0
                   ELSE IF failWrite = 0 THEN Len(WriteOrder)
                   ELSE failWrite - 1
        pos(h) == CHOOSE i \in 1..Len(WriteOrder) : WriteOrder[i] = h
    IN  [dir |-> dir \/ ~dirError,
         files |-> [h \in HookNames |->
                       IF pos(h) <= written
                       THEN writeFileSync(fs[h], HookContent(h, config))
                       ELSE IF ~dirError /\ torn /\ pos(h) = failWrite
                       THEN writeFileSync(fs[h], <<>>)
                       ELSE fs[h]],
         ok |-> ~dirError /\ failWrite = 0]

\* The presence check of updateStatusBar (src/extension.js:496-504).
hooksInstalled(fs, readFails) ==
    IF fs["pre-commit"].exists
    THEN IF readFails THEN FALSE
         ELSE Includes(fs["pre-commit"].content, SIGNATURE)
    ELSE FALSE

\* updateStatusBar (src/extension.js:484-517): the text shown.
updateStatusBar(workspace, fs, readFails) ==
    IF ~workspace THEN "$(warning) VB: No Workspace"
    ELSE IF hooksInstalled(fs, readFails) THEN "$(check-all) VB: Active"
    ELSE "$(circle-outline) VB: Ready"

-----------------------------------------------------------------------------
(* The validation commands (src/extension.js:530-621).  A handler is an    *)
(* async function: it runs up to its await (the input prompt, the git      *)
(* runner), and its continuation runs when the awaited promise settles.    *)
(* Each continuation is an operator from what the handler has in hand to   *)
(* the messages it shows and whether it goes on to the git runner.         *)

\* getConfig (src/extension.js:49-59): the editor's merged configuration.  A
\* key of the workspace settings file overrides the user-level key, and a key
\* set in neither takes the default given to config.get.
getConfig(user, s) ==
    LET text(w, u, d) == IF w # <<>> THEN w ELSE IF u # <<>> THEN u ELSE d
        flag(w, u) == IF w # "undef" THEN w = "true" ELSE u # "false"
    IN  Config(text(s.branchPattern, user.branchPattern, <<"jira">>),
               text(s.commitPattern, user.commitPattern, <<"jira">>),
               flag(s.enableBranchValidation, user.enableBranchValidation),
               flag(s.enableCommitValidation, user.enableCommitValidation),
               text(s.customBranchPattern, user.customBranchPattern, <<>>),
               text(s.customCommitPattern, user.customCommitPattern, <<>>))

\* What showInputBox resolves to when the prompt is dismissed.
Dismissed == <<"undefined">>

\* !branchName: undefined or the empty string.
IsEmptyInput(input) == input = Dismissed \/ input = <<>>

Message(text, examples) == [text |-> text, examples |-> examples]

\* showBranchValidationError (src/extension.js:259-271).
showBranchValidationError(branchName, pattern) ==
    Message("Branch name doesn't follow the convention", getBranchExamples(pattern))

\* showCommitValidationError (src/extension.js:276-288).
showCommitValidationError(message, pattern) ==
    Message("Commit message doesn't follow the convention", getCommitExamples(pattern))

\* The messages of one call of a validator followed by the caller's report of
\* a mismatch: the validator itself shows the invalid-pattern error.
ValidatorMessages(v) == IF v.error # "" THEN <<Message(v.error, <<>>)>> ELSE <<>>

Step(next, shown, valid) == [next |-> next, shown |-> shown, valid |-> valid]

\* validateCurrentBranch after git branch --show-current has resolved
\* (src/extension.js:538-544); live is getConfig() at that moment.
validateCurrentBranchResolved(currentBranch, live) ==
    LET v == validateBranchName(currentBranch, live.branchPattern, live)
    IN  IF v.ok
        THEN Step("return", <<Message("Branch follows the convention", <<>>)>>, "ok")
        ELSE Step("return",
                  ValidatorMessages(v)
                  \o <<showBranchValidationError(currentBranch, live.branchPattern)>>,
                  "bad")

\* createBranch opening its prompt whatever the enabled flag says.
createBranchInvokedUnflagged(workspace, config) ==
    IF ~workspace
    THEN Step("return", <<Message("No workspace folder found", <<>>)>>, "none")
    ELSE Step("prompt", <<>>, "none")

\* createBranch up to its prompt (src/extension.js:553-568).
createBranchInvoked(workspace, config) ==
    IF ~workspace
    THEN Step("return", <<Message("No workspace folder found", <<>>)>>, "none")
    ELSE IF ~config.enableBranchValidation
    THEN Step("return", <<Message("Branch validation is disabled", <<>>)>>, "none")
    ELSE Step("prompt", <<>>, "none")

\* createBranch running git whatever the validator said.
createBranchAnsweredUnvalidated(branchName, config, live) ==
    IF IsEmptyInput(branchName) THEN Step("return", <<>>, "none")
    ELSE Step("git", <<>>, IF validateBranchName(branchName, config.branchPattern, live).ok
                           THEN "ok" ELSE "bad")

\* createBranch validating an empty answer like any other.
createBranchAnsweredNoCancel(branchName, config, live) ==
    LET name == IF branchName = Dismissed THEN <<>> ELSE branchName
        v == validateBranchName(name, config.branchPattern, live)
    IN  IF ~v.ok
        THEN Step("return",
                  ValidatorMessages(v)
                  \o <<showBranchValidationError(name, config.branchPattern)>>,
                  "bad")
        ELSE Step("git", <<>>, "ok")

\* createBranch once the prompt has resolved (src/extension.js:570-577);
\* config is the configuration read before the prompt, live is getConfig()
\* as validateBranchName reads it now.
createBranchAnswered(branchName, config, live) ==
    IF IsEmptyInput(branchName) THEN Step("return", <<>>, "none")
    ELSE LET v == validateBranchName(branchName, config.branchPattern, live)
         IN  IF ~v.ok
             THEN Step("return",
                       ValidatorMessages(v)
                       \o <<showBranchValidationError(branchName, config.branchPattern)>>,
                       "bad")
             ELSE Step("git", <<>>, "ok")

\* validateCommit up to its prompt (src/extension.js:589-598).
validateCommitInvoked(config) ==
    IF ~config.enableCommitValidation
    THEN Step("return", <<Message("Commit validation is disabled", <<>>)>>, "none")
    ELSE Step("prompt", <<>>, "none")

\* validateCommit once the prompt has resolved (src/extension.js:600-613).
validateCommitAnswered(commitMessage, config, live, workspace) ==
    IF IsEmptyInput(commitMessage) THEN Step("return", <<>>, "none")
    ELSE LET v == validateCommitMessage(commitMessage, config.commitPattern, live)
         IN  IF ~v.ok
             THEN Step("return",
                       ValidatorMessages(v)
                       \o <<showCommitValidationError(commitMessage, config.commitPattern)>>,
                       "bad")
             ELSE IF ~workspace
             THEN Step("return", <<Message("No workspace folder found", <<>>)>>, "ok")
             ELSE Step("git", <<>>, "ok")

\* The message after the git runner has settled (src/extension.js:579-584,
\* 615-620).
gitSettled(cmd, resolved) ==
    IF cmd = "createBranch"
    THEN Message(IF resolved THEN "Branch created successfully!"
                 ELSE "Failed to create branch", <<>>)
    ELSE Message(IF resolved THEN "Commit created successfully!"
                 ELSE "Failed to commit", <<>>)

-----------------------------------------------------------------------------
(* State machine of the hook lifecycle: the install and remove commands,   *)
(* the status-bar timer, and what happens outside the extension.           *)

NoFiles == [h \in HookNames |-> NoFile]

NoOp ==
    [op |-> "none", ok |-> TRUE, pre |-> NoFiles, preDir |-> FALSE,
     config |-> DefaultConfig, failing |-> {}, updated |-> FALSE]

NoHookRun == HookResult("none", <<>>, 0, <<>>, <<>>, FALSE)

NoValidation == [kind |-> "none", ok |-> FALSE, error |-> ""]

\* Settings files of the lifecycle model.
SettingsFiles ==
    { SettingsFile("missing", <<>>, <<>>, "undef", "undef", <<>>, <<>>),
      SettingsFile("unreadable", <<>>, <<>>, "undef", "undef", <<>>, <<>>),
      SettingsFile("malformed", <<>>, <<>>, "undef", "undef", <<>>, <<>>),
      SettingsFile("ok", <<"custom">>, <<"custom">>, "true", "undef",
                   <<"^", "z", "$">>, <<"^", "z", "$">>),
      SettingsFile("ok", <<>>, <<"jira">>, "false", "true", <<>>, <<>>) }

\* User-level settings: nothing set, a custom convention whose pattern does
\* not compile, a custom convention with a pattern that does, both
\* validations switched off.
NoUserSettings == SettingsFile("ok", <<>>, <<>>, "undef", "undef", <<>>, <<>>)

UserSettingsLayers ==
    { NoUserSettings,
      SettingsFile("ok", <<"custom">>, <<"custom">>, "undef", "undef", <<"(">>, <<"(">>),
      SettingsFile("ok", <<"custom">>, <<"custom">>, "undef", "undef",
                   <<"^", "z", "$">>, <<"^", "z", "$">>),
      SettingsFile("ok", <<>>, <<>>, "false", "false", <<>>, <<>>) }

\* A command invocation suspended at its await.
Invocation(cmd, at, config) ==
    [cmd |-> cmd, at |-> at, config |-> config, live |-> config, input |-> <<>>,
     valid |-> "none", runs |-> IF at = "git" THEN 1 ELSE 0, workspace |-> TRUE]

\* A command invocation that has returned: the messages it showed, how many
\* times it called executeGitCommand, what it validated and under which
\* configuration.
Finished(cmd, shown, runs, input, config, live, valid, prompted, workspace) ==
    [cmd |-> cmd, shown |-> shown, runs |-> runs, input |-> input, config |-> config,
     live |-> live, valid |-> valid, prompted |-> prompted, workspace |-> workspace]

NoDone == Finished("none", <<>>, 0, <<>>, DefaultConfig, DefaultConfig, "none", FALSE, TRUE)

\* No installGitHooks call is between two filesystem calls.
NotWriting == [pos |-> 0, open |-> FALSE, config |-> DefaultConfig]

\* No git process has opened a hook file yet.
NoRead == [hook |-> "none", file |-> NoFile]

\* A hook written by the user, without the signature.
UserHook == << <<"#!/bin/sh">>, <<"exec make lint">> >>

\* The content with every occurrence of text cut out of its lines.
StripText(content, text) ==
    [i \in 1..Len(content) |-> SelectSeq(content[i], LAMBDA tok : tok # text)]

FaultSets == {F \in SUBSET HookNames : Cardinality(F) <= MaxFaults}

Init ==
    /\ hasWorkspace = TRUE
    /\ hooksDir = FALSE
    /\ files = NoFiles
    /\ settings = SettingsFile("missing", <<>>, <<>>, "undef", "undef", <<>>, <<>>)
    /\ notification = ""
    /\ statusBar = [text |-> updateStatusBar(TRUE, NoFiles, FALSE), readFailed |-> FALSE]
    /\ timers = 0
    /\ events = 0
    /\ lastOp = NoOp
    /\ cfg = DefaultConfig
    /\ subject = <<>>
    /\ hookRes = NoHookRun
    /\ valRes = NoValidation
    /\ userSettings = NoUserSettings
    /\ inflight = <<>>
    /\ done = NoDone
    /\ started = 0
    /\ active = TRUE
    /\ writing = NotWriting
    /\ observed = NoRead

\* The command validate-branch.installGitHooks (src/extension.js:624-634).
InstallHooksCmd ==
    /\ active
    /\ writing = NotWriting
    /\ timers < MaxTimers
    /\ IF ~hasWorkspace
       THEN /\ notification' = "No workspace folder found"
            /\ lastOp' = NoOp
            /\ UNCHANGED <<hooksDir, files, timers, events>>
       ELSE \E mkdirFails \in BOOLEAN, failWrite \in 0..Len(WriteOrder), torn \in BOOLEAN :
               LET config == getHookConfig(settings)
                   r == installGitHooks(hooksDir, files, config, mkdirFails, failWrite, torn)
               IN  /\ ~(mkdirFails /\ failWrite # 0)
                   /\ torn => failWrite # 0
                   /\ mkdirFails => ~hooksDir
                   /\ ~r.ok => events < MaxEvents
                   /\ events' = IF r.ok THEN events ELSE events + 1
                   /\ hooksDir' = r.dir
                   /\ files' = r.files
                   /\ notification' = IF r.ok THEN "Git hooks installed successfully!"
                                      ELSE "Failed to install git hooks"
                   /\ timers' = timers + 1
                   /\ lastOp' = [op |-> "install", ok |-> r.ok, pre |-> files,
                                 preDir |-> hooksDir, config |-> config,
                                 failing |-> {}, updated |-> FALSE]
    /\ UNCHANGED <<hasWorkspace, settings, statusBar>>
    /\ UNCHANGED engineVars
    /\ UNCHANGED commandVars
    /\ UNCHANGED processVars

\* The command validate-branch.removeGitHooks (src/extension.js:637-648).
RemoveHooksCmd ==
    /\ active
    /\ writing = NotWriting
    /\ timers < MaxTimers
    /\ IF ~hasWorkspace
       THEN /\ notification' = "No workspace folder found"
            /\ lastOp' = NoOp
            /\ UNCHANGED <<files, timers, events>>
       ELSE \E failing \in FaultSets :
               /\ failing # {} => events < MaxEvents
               /\ events' = IF failing = {} THEN events ELSE events + 1
               /\ files' = removeGitHooks(files, failing)
               /\ notification' = "Git hooks removed successfully!"
               /\ timers' = timers + 1
               /\ lastOp' = [op |-> "remove", ok |-> failing = {}, pre |-> files,
                             preDir |-> hooksDir, config |-> DefaultConfig,
                             failing |-> failing, updated |-> FALSE]
    /\ UNCHANGED <<hasWorkspace, hooksDir, settings, statusBar>>
    /\ UNCHANGED engineVars
    /\ UNCHANGED commandVars
    /\ UNCHANGED processVars

\* A setTimeout(updateStatusBar, 100) callback runs.
StatusBarTimer ==
    /\ active
    /\ writing = NotWriting
    /\ timers > 0
    /\ \E readFails \in BOOLEAN :
          /\ readFails => events < MaxEvents /\ hasWorkspace /\ files["pre-commit"].exists
          /\ events' = IF readFails THEN events + 1 ELSE events
          /\ statusBar' = [text |-> updateStatusBar(hasWorkspace, files, readFails),
                           readFailed |-> readFails]
    /\ timers' = timers - 1
    /\ lastOp' = [lastOp EXCEPT !.updated = (lastOp.op # "none")]
    /\ UNCHANGED <<hasWorkspace, hooksDir, files, settings, notification>>
    /\ UNCHANGED engineVars
    /\ UNCHANGED commandVars
    /\ UNCHANGED processVars

\* onDidChangeWorkspaceFolders (src/extension.js:523-525).
WorkspaceFoldersChanged ==
    /\ active
    /\ writing = NotWriting
    /\ events < MaxEvents
    /\ events' = events + 1
    /\ hasWorkspace' = ~hasWorkspace
    /\ statusBar' = [text |-> updateStatusBar(hasWorkspace', files, FALSE),
                     readFailed |-> FALSE]
    /\ lastOp' = NoOp
    /\ UNCHANGED <<hooksDir, files, settings, notification, timers>>
    /\ UNCHANGED engineVars
    /\ UNCHANGED commandVars
    /\ UNCHANGED processVars

\* Outside the extension: the user edits the signature out of a hook file.
UserStripsMarker ==
    /\ events < MaxEvents
    /\ \E h \in HookNames :
          /\ files[h].exists
          /\ Includes(files[h].content, SIGNATURE)
          /\ files' = [files EXCEPT ![h].content = StripText(files[h].content, SIGNATURE)]
    /\ events' = events + 1
    /\ lastOp' = NoOp
    /\ UNCHANGED <<hasWorkspace, hooksDir, settings, notification, statusBar, timers>>
    /\ UNCHANGED engineVars
    /\ UNCHANGED commandVars
    /\ UNCHANGED processVars

\* Outside the extension: the user writes a hook of their own.
UserWritesHook ==
    /\ events < MaxEvents
    /\ \E h \in HookNames, exec \in BOOLEAN :
          files' = [files EXCEPT ![h] = File(UserHook, exec)]
    /\ hooksDir' = TRUE
    /\ events' = events + 1
    /\ lastOp' = NoOp
    /\ UNCHANGED <<hasWorkspace, settings, notification, statusBar, timers>>
    /\ UNCHANGED engineVars
    /\ UNCHANGED commandVars
    /\ UNCHANGED processVars

\* A change of .vscode/settings.json answered by a reinstall of the hooks.
SettingsEditedReinstalling ==
    /\ events < MaxEvents
    /\ \E s \in SettingsFiles :
          /\ s # settings
          /\ settings' = s
          /\ files' = installGitHooks(hooksDir, files, getHookConfig(s), FALSE, 0, FALSE).files
    /\ hooksDir' = TRUE
    /\ events' = events + 1
    /\ lastOp' = NoOp
    /\ UNCHANGED <<hasWorkspace, notification, statusBar, timers>>
    /\ UNCHANGED engineVars
    /\ UNCHANGED commandVars
    /\ UNCHANGED processVars

\* Outside the extension: .vscode/settings.json is rewritten.
SettingsEdited ==
    /\ events < MaxEvents
    /\ \E s \in SettingsFiles : s # settings /\ settings' = s
    /\ events' = events + 1
    /\ lastOp' = NoOp
    /\ UNCHANGED <<hasWorkspace, hooksDir, files, notification, statusBar, timers>>
    /\ UNCHANGED engineVars
    /\ UNCHANGED commandVars
    /\ UNCHANGED processVars

Next ==
    \/ InstallHooksCmd
    \/ RemoveHooksCmd
    \/ StatusBarTimer
    \/ WorkspaceFoldersChanged
    \/ UserStripsMarker
    \/ UserWritesHook
    \/ SettingsEdited

Spec == Init /\ [][Next]_vars

-----------------------------------------------------------------------------
(* The convention engine on its own: one configuration, used both as the   *)
(* live configuration of the validators and as the snapshot the scripts    *)
(* are rendered from, and one subject.  A behaviour is at most one call of  *)
(* a validator followed by one run of a hook script.                       *)

PatternAlphabet == {"z", "^", "$", "(", DQ, BQ}

CustomPatternTexts == SeqsUpTo(PatternAlphabet, MaxPatLen)

\* Convention ids: the named one, custom, two that the documentation names
\* and no table knows, and two that carry shell syntax.
ConventionIds ==
    {<<"jira">>, <<"custom">>, <<"gitflow">>, <<"conventional">>, <<BQ, "z", BQ>>, <<DQ>>}

\* Every custom pattern text with validation enabled; the other ids, and
\* validation disabled, with an empty and a one-token pattern text.
EngineConfigs ==
    {Config(<<"custom">>, <<"custom">>, TRUE, TRUE, pat, pat) : pat \in CustomPatternTexts}
    \cup
    {Config(id, id, en, en, pat, pat) :
        id \in ConventionIds, en \in BOOLEAN, pat \in {<<>>, <<"z">>}}

ValidBranch == <<"feature", "/", "Z", "-", "1", "-", "z">>

\* A branch name of the documented convention "conventional", such as
\* feat/user-authentication.
ConventionalBranch == <<"feat", "/", "z">>

ValidCommit == <<"[", "Z", "-", "1", "]", SP, "feat", "(", "z", ")", ":", SP, "z">>

Subjects ==
    SeqsUpTo({"z", NL}, MaxSubjLen)
    \cup {ValidBranch, ConventionalBranch, <<"main">>, <<"HEAD">>, ValidCommit,
          ValidCommit \o <<NL>>, ValidCommit \o <<NL, NL, "z">>, <<"main", NL>> \o ValidCommit}

RefOf(branch) == <<"refs", "/", "heads", "/">> \o branch

\* Standard inputs of pre-push: the local refs of the ref-update lines.
PushInputs(branch) ==
    SeqsUpTo({<<"(delete)">>, RefOf(branch)}, MaxPushLines)

InitEngine ==
    /\ hasWorkspace = TRUE
    /\ hooksDir = FALSE
    /\ files = NoFiles
    /\ settings = SettingsFile("missing", <<>>, <<>>, "undef", "undef", <<>>, <<>>)
    /\ notification = ""
    /\ statusBar = [text |-> updateStatusBar(TRUE, NoFiles, FALSE), readFailed |-> FALSE]
    /\ timers = 0
    /\ events = 0
    /\ lastOp = NoOp
    /\ cfg \in EngineConfigs
    /\ subject \in Subjects
    /\ hookRes = NoHookRun
    /\ valRes = NoValidation
    /\ userSettings = NoUserSettings
    /\ inflight = <<>>
    /\ done = NoDone
    /\ started = 0
    /\ active = TRUE
    /\ writing = NotWriting
    /\ observed = NoRead

\* validateBranchName as the commands call it (src/extension.js:541, 574).
ValidateBranchStep ==
    /\ valRes.kind = "none" /\ hookRes.hook = "none"
    /\ valRes' = [kind |-> "branch"] @@ validateBranchName(subject, cfg.branchPattern, cfg)
    /\ UNCHANGED <<cfg, subject, hookRes>>
    /\ UNCHANGED lifecycleVars
    /\ UNCHANGED commandVars
    /\ UNCHANGED processVars

\* validateCommitMessage as the command calls it (src/extension.js:604).
ValidateCommitStep ==
    /\ valRes.kind = "none" /\ hookRes.hook = "none"
    /\ valRes' = [kind |-> "commit"] @@ validateCommitMessage(subject, cfg.commitPattern, cfg)
    /\ UNCHANGED <<cfg, subject, hookRes>>
    /\ UNCHANGED lifecycleVars
    /\ UNCHANGED commandVars
    /\ UNCHANGED processVars

\* git runs the rendered pre-commit script on branch subject.
PreCommitStep ==
    /\ hookRes.hook = "none"
    /\ NL \notin Range(subject)
    /\ hookRes' = RunPreCommit(HookContent("pre-commit", cfg), subject)
    /\ UNCHANGED <<cfg, subject, valRes>>
    /\ UNCHANGED lifecycleVars
    /\ UNCHANGED commandVars
    /\ UNCHANGED processVars

\* git runs the rendered commit-msg script on a message file holding subject.
CommitMsgStep ==
    /\ hookRes.hook = "none"
    /\ hookRes' = RunCommitMsg(HookContent("commit-msg", cfg), subject)
    /\ UNCHANGED <<cfg, subject, valRes>>
    /\ UNCHANGED lifecycleVars
    /\ UNCHANGED commandVars
    /\ UNCHANGED processVars

\* git runs the rendered pre-push script.
PrePushStep ==
    /\ hookRes.hook = "none"
    /\ NL \notin Range(subject)
    /\ \E stdin \in PushInputs(subject) :
          hookRes' = RunPrePush(HookContent("pre-push", cfg), stdin)
    /\ UNCHANGED <<cfg, subject, valRes>>
    /\ UNCHANGED lifecycleVars
    /\ UNCHANGED commandVars
    /\ UNCHANGED processVars

\* git runs the rendered post-checkout script with branch subject checked out.
PostCheckoutStep ==
    /\ hookRes.hook = "none"
    /\ NL \notin Range(subject)
    /\ \E branch_flag \in {<<"0">>, <<"1">>} :
          hookRes' = RunPostCheckout(HookContent("post-checkout", cfg), branch_flag, subject)
    /\ UNCHANGED <<cfg, subject, valRes>>
    /\ UNCHANGED lifecycleVars
    /\ UNCHANGED commandVars
    /\ UNCHANGED processVars

NextEngine ==
    \/ ValidateBranchStep
    \/ ValidateCommitStep
    \/ PreCommitStep
    \/ CommitMsgStep
    \/ PrePushStep
    \/ PostCheckoutStep

SpecEngine == InitEngine /\ [][NextEngine]_vars

-----------------------------------------------------------------------------
(* State machine of the validation commands, together with the changes of  *)
(* the user-level settings and of the workspace (the workspace settings    *)
(* file stays absent: the commands read the merged configuration, which    *)
(* the user-level keys vary just as well).  The input prompt holds the     *)
(* keyboard focus, so a command is invoked only while no prompt is open;   *)
(* nothing holds back an invocation while another awaits the git runner.   *)

CurrentBranches == {ValidBranch, <<"z">>}

BranchAnswers == {Dismissed, <<>>, ValidBranch, <<"z">>}

CommitAnswers == {Dismissed, <<>>, ValidCommit, <<"z">>}

NoPromptOpen == \A i \in 1..Len(inflight) : inflight[i].at # "prompt"

Without(seq, i) == SubSeq(seq, 1, i - 1) \o SubSeq(seq, i + 1, Len(seq))

\* validate-branch.validateCurrentBranch is invoked (src/extension.js:530-537).
ValidateCurrentBranchCmd ==
    /\ active
    /\ started < MaxCommands
    /\ NoPromptOpen
    /\ started' = started + 1
    /\ IF ~hasWorkspace
       THEN /\ done' = Finished("validateCurrentBranch",
                                <<Message("No workspace folder found", <<>>)>>, 0, <<>>,
                                DefaultConfig, DefaultConfig, "none", FALSE, FALSE)
            /\ inflight' = inflight
       ELSE /\ inflight' = Append(inflight,
                                  Invocation("validateCurrentBranch", "git", DefaultConfig))
            /\ done' = done
    /\ UNCHANGED userSettings
    /\ UNCHANGED lifecycleVars
    /\ UNCHANGED engineVars
    /\ UNCHANGED processVars

\* validate-branch.createBranch is invoked (src/extension.js:552-568).
CreateBranchCmd ==
    /\ active
    /\ started < MaxCommands
    /\ NoPromptOpen
    /\ started' = started + 1
    /\ LET config == getConfig(userSettings, settings)
           r == createBranchInvoked(hasWorkspace, config)
       IN  IF r.next = "prompt"
           THEN /\ inflight' = Append(inflight, Invocation("createBranch", "prompt", config))
                /\ done' = done
           ELSE /\ done' = Finished("createBranch", r.shown, 0, <<>>, config, config,
                                    r.valid, FALSE, hasWorkspace)
                /\ inflight' = inflight
    /\ UNCHANGED userSettings
    /\ UNCHANGED lifecycleVars
    /\ UNCHANGED engineVars
    /\ UNCHANGED processVars

\* validate-branch.validateCommit is invoked (src/extension.js:588-598).
ValidateCommitCmd ==
    /\ active
    /\ started < MaxCommands
    /\ NoPromptOpen
    /\ started' = started + 1
    /\ LET config == getConfig(userSettings, settings)
           r == validateCommitInvoked(config)
       IN  IF r.next = "prompt"
           THEN /\ inflight' = Append(inflight, Invocation("validateCommit", "prompt", config))
                /\ done' = done
           ELSE /\ done' = Finished("validateCommit", r.shown, 0, <<>>, config, config,
                                    r.valid, FALSE, hasWorkspace)
                /\ inflight' = inflight
    /\ UNCHANGED userSettings
    /\ UNCHANGED lifecycleVars
    /\ UNCHANGED engineVars
    /\ UNCHANGED processVars

\* showInputBox resolves: the human has answered or dismissed the prompt.
PromptAnswered ==
    /\ \E i \in 1..Len(inflight) :
          /\ inflight[i].at = "prompt"
          /\ \E input \in IF inflight[i].cmd = "createBranch"
                          THEN BranchAnswers ELSE CommitAnswers :
                LET inv == inflight[i]
                    live == getConfig(userSettings, settings)
                    r == IF inv.cmd = "createBranch"
                         THEN createBranchAnswered(input, inv.config, live)
                         ELSE validateCommitAnswered(input, inv.config, live, hasWorkspace)
                IN  IF r.next = "git"
                    THEN /\ inflight' = [inflight EXCEPT
                                            ![i] = [inv EXCEPT !.at = "git", !.input = input,
                                                               !.live = live,
                                                               !.valid = r.valid,
                                                               !.runs = inv.runs + 1,
                                                               !.workspace = hasWorkspace]]
                         /\ done' = done
                    ELSE /\ done' = Finished(inv.cmd, r.shown, inv.runs, input, inv.config,
                                             live, r.valid, TRUE, hasWorkspace)
                         /\ inflight' = Without(inflight, i)
    /\ UNCHANGED <<userSettings, started>>
    /\ UNCHANGED lifecycleVars
    /\ UNCHANGED engineVars
    /\ UNCHANGED processVars

\* The promise of executeGitCommand settles (src/extension.js:34-44).
GitRunnerSettled ==
    /\ \E i \in 1..Len(inflight) :
          /\ inflight[i].at = "git"
          /\ \E resolved \in BOOLEAN, currentBranch \in CurrentBranches :
                LET inv == inflight[i]
                    live == getConfig(userSettings, settings)
                IN  /\ inv.cmd # "validateCurrentBranch" => currentBranch = ValidBranch
                    /\ done' =
                          IF inv.cmd = "validateCurrentBranch"
                          THEN IF ~resolved
                               THEN Finished(inv.cmd, <<Message("Error", <<>>)>>, inv.runs,
                                             <<>>, live, live, "none", FALSE, TRUE)
                               ELSE LET r == validateCurrentBranchResolved(currentBranch, live)
                                    IN  Finished(inv.cmd, r.shown, inv.runs, currentBranch,
                                                 live, live, r.valid, FALSE, TRUE)
                          ELSE Finished(inv.cmd, <<gitSettled(inv.cmd, resolved)>>, inv.runs,
                                        inv.input, inv.config, inv.live, inv.valid, TRUE,
                                        inv.workspace)
                    /\ inflight' = Without(inflight, i)
    /\ UNCHANGED <<userSettings, started>>
    /\ UNCHANGED lifecycleVars
    /\ UNCHANGED engineVars
    /\ UNCHANGED processVars

\* Outside the extension: the user-level settings are changed.
UserSettingsEdited ==
    /\ events < MaxEvents
    /\ \E u \in UserSettingsLayers : u # userSettings /\ userSettings' = u
    /\ events' = events + 1
    /\ lastOp' = NoOp
    /\ UNCHANGED <<hasWorkspace, hooksDir, files, settings, notification, statusBar, timers>>
    /\ UNCHANGED <<inflight, done, started>>
    /\ UNCHANGED engineVars
    /\ UNCHANGED processVars

NextCommands ==
    \/ ValidateCurrentBranchCmd
    \/ CreateBranchCmd
    \/ ValidateCommitCmd
    \/ PromptAnswered
    \/ GitRunnerSettled
    \/ UserSettingsEdited
    \/ WorkspaceFoldersChanged

SpecCommands == Init /\ [][NextCommands]_vars

-----------------------------------------------------------------------------
(* The snapshot against the live configuration: installs, the status-bar   *)
(* timer that follows each, and changes of either settings layer.          *)

NextSnapshot ==
    \/ InstallHooksCmd
    \/ StatusBarTimer
    \/ SettingsEdited
    \/ UserSettingsEdited

SpecSnapshot == Init /\ [][NextSnapshot]_vars

-----------------------------------------------------------------------------
(* The extension's lifetime: deactivation and a later activation.          *)

\* The status bar item after dispose().
Disposed == [text |-> "", readFailed |-> FALSE]

\* deactivate (src/extension.js:680-702): the status bar item is disposed
\* and removeGitHooks runs on every workspace folder.
Deactivate ==
    /\ active
    /\ writing = NotWriting
    /\ active' = FALSE
    /\ statusBar' = Disposed
    /\ timers' = 0
    /\ IF ~hasWorkspace
       THEN UNCHANGED <<files, events>>
       ELSE \E failing \in FaultSets :
               /\ failing # {} => events < MaxEvents
               /\ events' = IF failing = {} THEN events ELSE events + 1
               /\ files' = removeGitHooks(files, failing)
    /\ lastOp' = [NoOp EXCEPT !.op = "deactivate", !.pre = files, !.preDir = hooksDir]
    /\ UNCHANGED <<hasWorkspace, hooksDir, settings, notification, writing, observed>>
    /\ UNCHANGED engineVars
    /\ UNCHANGED commandVars

\* activate (src/extension.js:473-678) after a deactivation: a new status
\* bar item, the initial updateStatusBar, the welcome message.
Activate ==
    /\ ~active
    /\ active' = TRUE
    /\ statusBar' = [text |-> updateStatusBar(hasWorkspace, files, FALSE),
                     readFailed |-> FALSE]
    /\ notification' = "Validate Branch extension activated!"
    /\ lastOp' = NoOp
    /\ UNCHANGED <<hasWorkspace, hooksDir, files, settings, timers, events,
                   writing, observed>>
    /\ UNCHANGED engineVars
    /\ UNCHANGED commandVars

NextLifetime ==
    \/ InstallHooksCmd
    \/ RemoveHooksCmd
    \/ StatusBarTimer
    \/ WorkspaceFoldersChanged
    \/ SettingsEdited
    \/ Deactivate
    \/ Activate

SpecLifetime == Init /\ [][NextLifetime]_vars

-----------------------------------------------------------------------------
(* installGitHooks as a git process sees it.  writeFileSync is an open     *)
(* with O_WRONLY | O_CREAT | O_TRUNC followed by the write of the content: *)
(* between the two another process finds the file empty.                   *)

\* installGitHooks up to its first write (src/extension.js:327-443).
InstallBegins ==
    /\ active
    /\ hasWorkspace
    /\ writing = NotWriting
    /\ timers < MaxTimers
    /\ writing' = [pos |-> 1, open |-> FALSE, config |-> getHookConfig(settings)]
    /\ hooksDir' = TRUE
    /\ lastOp' = NoOp
    /\ UNCHANGED <<hasWorkspace, files, settings, notification, statusBar, timers,
                   events, active, observed>>
    /\ UNCHANGED engineVars
    /\ UNCHANGED commandVars

\* The open of the writeFileSync under way (src/extension.js:445-448).
WriteOpens ==
    /\ writing.pos > 0
    /\ ~writing.open
    /\ files' = [files EXCEPT ![WriteOrder[writing.pos]] = writeFileSync(@, <<>>)]
    /\ writing' = [writing EXCEPT !.open = TRUE]
    /\ UNCHANGED <<hasWorkspace, hooksDir, settings, notification, statusBar, timers,
                   events, lastOp, active, observed>>
    /\ UNCHANGED engineVars
    /\ UNCHANGED commandVars

\* The write and close of the writeFileSync under way; after the last one
\* the success message and the command's setTimeout
\* (src/extension.js:445-450, 633).
WriteCompletes ==
    /\ writing.open
    /\ files' = [files EXCEPT ![WriteOrder[writing.pos]].content =
                                  HookContent(WriteOrder[writing.pos], writing.config)]
    /\ IF writing.pos < Len(WriteOrder)
       THEN /\ writing' = [writing EXCEPT !.pos = @ + 1, !.open = FALSE]
            /\ UNCHANGED <<notification, timers>>
       ELSE /\ writing' = NotWriting
            /\ notification' = "Git hooks installed successfully!"
            /\ timers' = timers + 1
    /\ UNCHANGED <<hasWorkspace, hooksDir, settings, statusBar, events, lastOp,
                   active, observed>>
    /\ UNCHANGED engineVars
    /\ UNCHANGED commandVars

\* Outside the extension: git opens a hook file to run it.
GitReadsHook ==
    /\ \E h \in HookNames : observed' = [hook |-> h, file |-> files[h]]
    /\ UNCHANGED lifecycleVars
    /\ UNCHANGED <<active, writing>>
    /\ UNCHANGED engineVars
    /\ UNCHANGED commandVars

NextWrites ==
    \/ InstallBegins
    \/ WriteOpens
    \/ WriteCompletes
    \/ GitReadsHook
    \/ StatusBarTimer
    \/ SettingsEdited

SpecWrites == Init /\ [][NextWrites]_vars

-----------------------------------------------------------------------------
(* Hook lifecycle: claims checked under Spec.                              *)

Signed(file) == file.exists /\ Includes(file.content, SIGNATURE)

\* C1: remove-hooks deletes exactly those of the four hook files that exist
\* and contain the signature marker (and whose read and unlink did not fail);
\* every one of the four that lacks the marker is left as it was, and so is
\* the hooks directory.
RemoveDeletesExactlySigned ==
    lastOp.op = "remove" =>
        /\ \A h \in HookNames :
              IF Signed(lastOp.pre[h]) /\ h \notin lastOp.failing
              THEN ~files[h].exists
              ELSE files[h] = lastOp.pre[h]
        /\ hooksDir = lastOp.preDir

\* C1, witness: install, the marker edited out of one hook file, remove: that
\* file is untouched and the other three are gone.
RemoveSparesStrippedHook ==
    /\ lastOp.op = "remove"
    /\ lastOp.failing = {}
    /\ \E h \in HookNames :
          /\ lastOp.pre[h].exists
          /\ lastOp.pre[h].content = StripText(HookContent(h, DefaultConfig), SIGNATURE)
          /\ files[h] = lastOp.pre[h]
          /\ \A g \in HookNames \ {h} : Signed(lastOp.pre[g]) /\ ~files[g].exists

\* C2: install-hooks is unconditional and idempotent: after an install that
\* met no filesystem error, whatever the directory held before, each of the
\* four files has exactly the text rendered from the snapshot configuration,
\* and an install over the result of an install with the same snapshot
\* leaves the filesystem unchanged.
InstallWritesAllAndIsIdempotent ==
    (lastOp.op = "install" /\ lastOp.ok) =>
        /\ hooksDir
        /\ lastOp.config = getHookConfig(settings)
        /\ \A h \in HookNames :
              files[h].exists /\ files[h].content = HookContent(h, lastOp.config)
        /\ (/\ lastOp.preDir
            /\ \A h \in HookNames :
                  /\ lastOp.pre[h].exists
                  /\ lastOp.pre[h].content = HookContent(h, lastOp.config))
           => files = lastOp.pre

\* C2, witness: a second install over the result of a first one that had
\* overwritten a hook the user wrote (the file still has the user's mode).
SecondInstallChangesNothing ==
    /\ lastOp.op = "install"
    /\ lastOp.ok
    /\ lastOp.pre = files
    /\ \E h \in HookNames : files[h].exists /\ ~files[h].exec

-----------------------------------------------------------------------------
(* Convention engine: claims checked under SpecEngine.                     *)

\* The rule the snapshot configuration stands for: the custom pattern when
\* the convention is custom and a pattern is given, the pattern of the named
\* convention, the default convention's for any other id.
SnapshotBranchPattern(config) ==
    IF config.branchPattern = <<"custom">> /\ config.customBranchPattern # <<>>
    THEN config.customBranchPattern
    ELSE BranchPatternStrings(<<"jira">>)

SnapshotCommitPattern(config) ==
    IF config.commitPattern = <<"custom">> /\ config.customCommitPattern # <<>>
    THEN config.customCommitPattern
    ELSE CommitPatternStrings(<<"jira">>)

CheckedOut(branch) == branch # <<>> /\ branch # <<"HEAD">>

\* C5: the installed hook scripts behave identically to the in-process
\* validator: pre-commit accepts a branch name exactly when validateBranchName
\* returns true for it, commit-msg accepts a message exactly when
\* validateCommitMessage returns true for it.
HooksAgreeWithValidator ==
    /\ (hookRes.hook = "pre-commit" /\ valRes.kind = "branch")
          => ((hookRes.exit = 0) <=> valRes.ok)
    /\ (hookRes.hook = "commit-msg" /\ valRes.kind = "commit")
          => ((hookRes.exit = 0) <=> valRes.ok)

\* C6: rendering is injection-safe: running a rendered hook executes no
\* command other than those of the fixed template, whatever the custom
\* pattern text and the convention id are.
RenderingIsInjectionSafe == hookRes.subs = <<>>

\* C7: pre-commit exits nonzero exactly when branch validation is enabled and
\* the checked-out branch fails the branch rule; commit-msg exits nonzero
\* exactly when commit validation is enabled and the message fails the commit
\* rule.
BlockingHooksExitStatus ==
    /\ (hookRes.hook = "pre-commit" /\ CheckedOut(subject))
          => ((hookRes.exit # 0)
                <=> (cfg.enableBranchValidation
                     /\ ~GrepQE(SnapshotBranchPattern(cfg), subject)))
    /\ hookRes.hook = "commit-msg"
          => ((hookRes.exit # 0)
                <=> (cfg.enableCommitValidation
                     /\ ~GrepQE(SnapshotCommitPattern(cfg), StripTrailingNewlines(subject))))

\* C8: pre-push applies the branch rule to the branch of every line that is
\* not a deletion, in order, and exits nonzero at the first that fails; it
\* exits 0 when none fails, on empty input and when validation is disabled;
\* deletion lines are never validated.
PrePushValidatesEachLine ==
    (hookRes.hook = "pre-push" /\ subject # <<>>) =>
        LET stdin == hookRes.input
            pushed == {i \in 1..Len(stdin) : stdin[i] # <<"(delete)">>}
            fails == cfg.enableBranchValidation
                     /\ ~GrepQE(SnapshotBranchPattern(cfg), subject)
        IN  /\ (hookRes.exit # 0) <=> (fails /\ pushed # {})
            /\ \A i \in 1..Len(hookRes.validated) : hookRes.validated[i] = subject
            /\ Len(hookRes.validated) =
                  IF ~cfg.enableBranchValidation THEN 0
                  ELSE IF fails THEN Min(1, Cardinality(pushed))
                  ELSE Cardinality(pushed)

\* C9: the post-checkout script never aborts: it exits 0 for every
\* combination of its arguments, every snapshot configuration and every
\* current branch name.
PostCheckoutNeverAborts == hookRes.hook = "post-checkout" => hookRes.exit = 0

\* C10: an unrecognized convention id falls back to the default convention's
\* rule: in-process validation and the rendered hooks give, for every
\* subject, the same result as under the convention jira.
UnknownIdFallsBackToDefault ==
    LET asDefault == [cfg EXCEPT !.branchPattern = <<"jira">>, !.commitPattern = <<"jira">>]
    IN  cfg.branchPattern \notin {<<"jira">>, <<"custom">>} =>
          /\ valRes.kind = "branch"
                => valRes.ok = validateBranchName(subject, <<"jira">>, asDefault).ok
          /\ valRes.kind = "commit"
                => valRes.ok = validateCommitMessage(subject, <<"jira">>, asDefault).ok
          /\ hookRes.hook = "pre-commit"
                => hookRes.exit = RunPreCommit(HookContent("pre-commit", asDefault), subject).exit
          /\ hookRes.hook = "commit-msg"
                => hookRes.exit = RunCommitMsg(HookContent("commit-msg", asDefault), subject).exit

\* C11: under the convention custom with an empty custom pattern the
\* validator reports a configuration error instead of silently rejecting the
\* subject, and the rendered hook does not silently apply the default rule
\* (it does not accept a branch on the strength of the jira pattern).
EmptyCustomPatternIsAnError ==
    (cfg.branchPattern = <<"custom">> /\ cfg.customBranchPattern = <<>>) =>
        /\ valRes.kind = "branch" => valRes.error # ""
        /\ valRes.kind = "commit" => valRes.error # ""
        /\ (hookRes.hook = "pre-commit" /\ subject = ValidBranch) => hookRes.exit # 0

-----------------------------------------------------------------------------
(* Hook lifecycle, continued: claims checked under Spec.                   *)

\* The configuration the claim describes for a settings file: the defaults
\* when the file is missing, unreadable or not valid JSON, and otherwise each
\* key's value with its default where the key is absent.
DefaultedSettings(s) ==
    IF s.status # "ok"
    THEN [branchPattern |-> <<"jira">>, commitPattern |-> <<"jira">>,
          enableBranchValidation |-> TRUE, enableCommitValidation |-> TRUE,
          customBranchPattern |-> <<>>, customCommitPattern |-> <<>>]
    ELSE [branchPattern |-> IF s.branchPattern = <<>> THEN <<"jira">> ELSE s.branchPattern,
          commitPattern |-> IF s.commitPattern = <<>> THEN <<"jira">> ELSE s.commitPattern,
          enableBranchValidation |-> s.enableBranchValidation \in {"undef", "true"},
          enableCommitValidation |-> s.enableCommitValidation \in {"undef", "true"},
          customBranchPattern |-> s.customBranchPattern,
          customCommitPattern |-> s.customCommitPattern]

FilesystemFailuresAreReported ==
    /\ (lastOp.op = "remove" /\ \E h \in lastOp.failing : Signed(lastOp.pre[h]))
          => notification # "Git hooks removed successfully!"
    /\ (lastOp.op = "install" /\ ~lastOp.ok)
          => notification = "Failed to install git hooks"

\* C20: after a successful install every one of the four hook files is
\* executable, whatever the hooks directory held before.
InstalledHooksAreExecutable ==
    (lastOp.op = "install" /\ lastOp.ok) => \A h \in HookNames : files[h].exec

-----------------------------------------------------------------------------
(* Snapshot and live configuration: claims checked under SpecSnapshot.     *)

\* C14: installed hooks are a frozen snapshot: a step that changes the
\* workspace settings file or the user-level settings leaves the four hook
\* files and the hooks directory as they are, and the hook files change only
\* in a step of the install-hooks command.
FrozenSnapshot ==
    [][ /\ (settings' # settings \/ userSettings' # userSettings)
            => (files' = files /\ hooksDir' = hooksDir)
        /\ files' # files => lastOp'.op = "install" ]_vars

\* C14, witness: hooks installed under the default configuration are still
\* in place, unchanged, after both settings layers have been changed.
StaleSnapshot ==
    /\ \A h \in HookNames :
          files[h].exists /\ files[h].content = HookContent(h, DefaultConfig)
    /\ getHookConfig(settings) # DefaultConfig
    /\ userSettings # NoUserSettings

\* C15: immediately after any install the convention ids, custom patterns
\* and enabled flags embedded in the four scripts equal those of the live
\* configuration (getConfig) that in-process validation uses at that moment.
InstallTakesLiveConfiguration ==
    (lastOp.op = "install" /\ lastOp.ok) =>
        /\ lastOp.config = getConfig(userSettings, settings)
        /\ \A h \in HookNames :
              files[h].content = HookContent(h, getConfig(userSettings, settings))

-----------------------------------------------------------------------------
(* Validation commands: claims checked under SpecCommands.                 *)

BranchCommands == {"validateCurrentBranch", "createBranch"}

PromptCommands == {"createBranch", "validateCommit"}

\* The custom pattern in force for a finished invocation does not compile.
InvalidCustomPattern(d) ==
    IF d.cmd \in BranchCommands
    THEN /\ d.config.branchPattern = <<"custom">>
         /\ d.live.customBranchPattern # <<>>
         /\ ~RegExpCompile(d.live.customBranchPattern).ok
    ELSE /\ d.config.commitPattern = <<"custom">>
         /\ d.live.customCommitPattern # <<>>
         /\ ~RegExpCompile(d.live.customCommitPattern).ok

MismatchTexts ==
    {"Branch name doesn't follow the convention",
     "Commit message doesn't follow the convention"}

InvalidPatternTexts ==
    {"Invalid custom branch pattern in settings",
     "Invalid custom commit pattern in settings"}

Texts(shown) == {shown[i].text : i \in 1..Len(shown)}

\* The subject a finished or suspended invocation was given passes the
\* validator under the configuration the handler used.
Passes(d) ==
    IF d.cmd = "createBranch"
    THEN validateBranchName(d.input, d.config.branchPattern, d.live).ok
    ELSE validateCommitMessage(d.input, d.config.commitPattern, d.live).ok

\* C12: with a custom pattern that does not compile, validate-current,
\* create-branch and create-commit show the invalid-pattern error, do not
\* show the mismatch report for the same call, and run no git command.
InvalidPatternIsDistinct ==
    (done.cmd # "none" /\ done.valid # "none" /\ InvalidCustomPattern(done)) =>
        /\ Texts(done.shown) \cap InvalidPatternTexts # {}
        /\ Texts(done.shown) \cap MismatchTexts = {}
        /\ done.runs = 0

\* C16: cancellation has no side effects: when the prompt of create-branch
\* or create-commit is dismissed or answered with nothing, the command
\* returns without calling the git runner, without showing a message and
\* without changing any file.
CancellationHasNoEffect ==
    [][ (done' # done /\ done'.prompted /\ IsEmptyInput(done'.input))
          => /\ done'.runs = 0
             /\ done'.shown = <<>>
             /\ UNCHANGED <<files, hooksDir, settings, notification>> ]_vars

\* C16, witness: a create-branch whose prompt was dismissed has returned.
CancelledCreateBranch ==
    /\ done.cmd = "createBranch"
    /\ done.prompted
    /\ done.input = Dismissed
    /\ done.runs = 0
    /\ done.shown = <<>>

\* The invocation had a workspace folder to run git in.
WithWorkspace(d) == d.cmd = "createBranch" \/ d.workspace

\* The discipline of the git runner in create-branch and create-commit: at
\* most one call per invocation and only for a subject that passed
\* validation; a subject that fails gets the mismatch error with examples and
\* no git command; a subject that passes goes to the runner, always if
\* unconditional and else when a workspace was there to run it in; the
\* runner's outcome is shown and the command is not run again.
RunnerDiscipline(unconditional) ==
    /\ \A i \in 1..Len(inflight) :
          inflight[i].cmd \in PromptCommands =>
             /\ inflight[i].runs <= 1
             /\ inflight[i].at = "git" => (inflight[i].runs = 1 /\ Passes(inflight[i]))
             /\ inflight[i].at = "prompt" => inflight[i].runs = 0
    /\ (done.cmd \in PromptCommands /\ ~done.prompted) => done.runs = 0
    /\ (done.cmd \in PromptCommands /\ done.prompted /\ ~IsEmptyInput(done.input)) =>
          IF Passes(done)
          THEN IF unconditional \/ WithWorkspace(done)
               THEN /\ done.runs = 1
                    /\ Len(done.shown) = 1
                    /\ done.shown[1].text \in
                          {"Branch created successfully!", "Failed to create branch",
                           "Commit created successfully!", "Failed to commit"}
               ELSE done.runs = 0
          ELSE /\ done.runs = 0
               /\ \E i \in 1..Len(done.shown) :
                     /\ done.shown[i].text \in MismatchTexts
                     /\ done.shown[i].examples # <<>>

\* C17 as stated: create-branch and create-commit call the git runner at
\* most once per invocation and only after the subject passed validation;
\* every valid subject goes to the runner, an invalid one gets an error with
\* examples and no git command; the runner's failure is shown and the
\* command is never retried.
GitRunsOnceAfterValidationAsStated == RunnerDiscipline(TRUE)

\* C17 as amended: the same, where a valid commit message goes to the runner
\* only if a workspace folder is open when the prompt is answered; without
\* one create-commit shows the no-workspace error and runs nothing.
GitRunsOnceAfterValidation == RunnerDiscipline(FALSE)

\* C17, witness: a create-branch given a valid name has called the runner
\* once, the runner failed, and the failure was shown.
RunnerFailureShownOnce ==
    /\ done.cmd = "createBranch"
    /\ done.input = ValidBranch
    /\ done.runs = 1
    /\ done.shown = <<Message("Failed to create branch", <<>>)>>

\* C18: commands run to completion one at a time: no command begins while
\* another invocation is suspended at its prompt or at the git runner.
CommandsRunOneAtATime == Len(inflight) <= 1

-----------------------------------------------------------------------------
(* The signature in the rendered scripts: installGitHooks and              *)
(* removeGitHooks under every snapshot configuration of the engine model.  *)

InitRender ==
    /\ hasWorkspace = TRUE
    /\ hooksDir = FALSE
    /\ files = NoFiles
    /\ settings = SettingsFile("missing", <<>>, <<>>, "undef", "undef", <<>>, <<>>)
    /\ notification = ""
    /\ statusBar = [text |-> updateStatusBar(TRUE, NoFiles, FALSE), readFailed |-> FALSE]
    /\ timers = 0
    /\ events = 0
    /\ lastOp = NoOp
    /\ cfg \in EngineConfigs
    /\ subject = <<>>
    /\ hookRes = NoHookRun
    /\ valRes = NoValidation
    /\ userSettings = NoUserSettings
    /\ inflight = <<>>
    /\ done = NoDone
    /\ started = 0
    /\ active = TRUE
    /\ writing = NotWriting
    /\ observed = NoRead

\* installGitHooks (src/extension.js:327-468) where getHookConfig has
\* returned cfg and no filesystem call fails.
InstallWithSnapshot ==
    /\ lastOp.op # "install"
    /\ files' = installGitHooks(hooksDir, files, cfg, FALSE, 0, FALSE).files
    /\ hooksDir' = TRUE
    /\ notification' = "Git hooks installed successfully!"
    /\ lastOp' = [NoOp EXCEPT !.op = "install", !.pre = files, !.preDir = hooksDir,
                              !.config = cfg]
    /\ UNCHANGED <<hasWorkspace, settings, statusBar, timers, events>>
    /\ UNCHANGED engineVars
    /\ UNCHANGED commandVars
    /\ UNCHANGED processVars

\* removeGitHooks (src/extension.js:293-322) where no filesystem call fails.
RemoveInstalled ==
    /\ lastOp.op = "install"
    /\ files' = removeGitHooks(files, {})
    /\ notification' = "Git hooks removed successfully!"
    /\ lastOp' = [NoOp EXCEPT !.op = "remove", !.pre = files, !.preDir = hooksDir]
    /\ UNCHANGED <<hasWorkspace, hooksDir, settings, statusBar, timers, events>>
    /\ UNCHANGED engineVars
    /\ UNCHANGED commandVars
    /\ UNCHANGED processVars

NextRender == InstallWithSnapshot \/ RemoveInstalled

SpecRender == InitRender /\ [][NextRender]_vars

\* C21: whatever the snapshot configuration (any convention id, any custom
\* pattern text), each of the four scripts a successful install has written
\* carries the signature marker on its second line, right after the
\* interpreter line, so that remove recognizes the four files as managed and
\* deletes them all.
SignatureInEveryScript ==
    /\ lastOp.op = "install" =>
           \A h \in HookNames :
              /\ files[h].exists
              /\ Len(files[h].content) >= 2
              /\ files[h].content[1] = <<"#!/bin/sh">>
              /\ files[h].content[2][1] = SIGNATURE
              /\ Signed(files[h])
    /\ lastOp.op = "remove" => files = NoFiles

\* C21, witness: the four scripts rendered from a custom pattern that
\* carries a double quote were installed, and remove has deleted them all.
SignedScriptsWithQuoteRemoved ==
    /\ lastOp.op = "remove"
    /\ cfg.branchPattern = <<"custom">>
    /\ DQ \in Range(cfg.customBranchPattern)
    /\ \A h \in HookNames : lastOp.pre[h].content = HookContent(h, cfg)
    /\ files = NoFiles

-----------------------------------------------------------------------------
(* What deletes or rewrites an installed hook.                             *)

\* C22: a managed hook file stops existing, or changes, only through the
\* remove-hooks command or a reinstall: no other step of the extension
\* (activation, deactivation, a workspace-folder change, a configuration
\* change, the status-bar timer) deletes or rewrites an installed hook.
HooksOutliveTheEditor ==
    [][\A h \in HookNames :
          (Signed(files[h]) /\ files'[h] # files[h])
              => lastOp'.op \in {"install", "remove"}]_vars

-----------------------------------------------------------------------------
(* The documented conventions.                                             *)

\* The rule the documentation and the test runner give for the branch
\* convention "conventional" (src/test-runner.js:13).
ConventionalBranchRule ==
    RegExpCompile(<<"^", "(feat|fix|docs|style|refactor|test|chore)", "\\/",
                    "[a-z0-9-]+", "$">>)

\* C23: the documented convention "conventional" is validated by its own
\* rule: with that branch convention configured the validator accepts exactly
\* the names of the form (feat|fix|docs|style|refactor|test|chore)/[a-z0-9-]+,
\* and it is the convention in force when nothing is configured.
ConventionalIsValidatedByItsRule ==
    valRes.kind = "branch" =>
        /\ cfg.branchPattern = <<"conventional">>
              => (valRes.ok <=> RegExpTest(ConventionalBranchRule.items, subject))
        /\ cfg = getConfig(NoUserSettings, NoUserSettings)
              => /\ cfg.branchPattern = <<"conventional">>
                 /\ cfg.commitPattern = <<"conventional">>

-----------------------------------------------------------------------------
(* A filesystem error during install; a git process beside an install.     *)

\* C24: when a filesystem call fails during install the operation aborts at
\* that point: the files written are a prefix of the write order pre-commit,
\* commit-msg, post-checkout, pre-push, every later file has the content it
\* had before, the failure is reported and the success message is not shown.
InstallAbortsAtTheFailure ==
    (lastOp.op = "install" /\ ~lastOp.ok) =>
        /\ notification = "Failed to install git hooks"
        /\ \E written \in 0..(Len(WriteOrder) - 1) :
              \A i \in 1..Len(WriteOrder) :
                 LET h == WriteOrder[i]
                 IN  files[h] = IF i <= written
                                THEN writeFileSync(lastOp.pre[h], HookContent(h, lastOp.config))
                                ELSE lastOp.pre[h]

\* C25: a git process that opens a hook file while an install is under way
\* finds no file, or a complete script: the one that was there before or the
\* new one, never an empty or truncated file.
ReadersSeeWholeScripts ==
    observed.hook # "none" =>
        \/ ~observed.file.exists
        \/ \E s \in SettingsFiles :
              observed.file.content = HookContent(observed.hook, getHookConfig(s))

-----------------------------------------------------------------------------
(* Configuration reads within one command invocation.                      *)

\* The verdict on the subject of a finished invocation had the validator
\* used, for the custom pattern text too, the configuration the handler read
\* when the command was invoked.
VerdictUnderOneRead(d) ==
    IF d.cmd \in BranchCommands
    THEN validateBranchName(d.input, d.config.branchPattern, d.config).ok
    ELSE validateCommitMessage(d.input, d.config.commitPattern, d.config).ok

\* C26: configuration is resolved once per use: in one invocation of
\* create-branch, create-commit or validate-current the convention id and the
\* custom pattern text the subject is validated against come from the same
\* read of the configuration, also when the live configuration changes
\* while the invocation is suspended at its prompt.
ConfigurationResolvedOncePerUse ==
    (done.cmd \in BranchCommands \cup PromptCommands /\ done.valid # "none") =>
        ((done.valid = "ok") <=> VerdictUnderOneRead(done))

-----------------------------------------------------------------------------
(* The status indicator.                                                   *)

\* C27: the status indicator is never stale: in every reachable state (after
\* activation, install, remove, workspace-folder changes, hook files edited
\* or deleted outside the editor, before or after the 100 ms timer) it shows
\* Active exactly when detect is true now, that is when the pre-commit file
\* exists and contains the signature.
StatusBarIsNeverStale ==
    (statusBar.text = "$(check-all) VB: Active")
        <=> (hasWorkspace /\ hooksInstalled(files, FALSE))

-----------------------------------------------------------------------------
(* The enabled flags.                                                      *)

\* The validation a command is about is switched off in configuration c.
Disabled(cmd, c) ==
    IF cmd = "createBranch" THEN ~c.enableBranchValidation ELSE ~c.enableCommitValidation

DisabledTexts == {"Branch validation is disabled", "Commit validation is disabled"}

\* C28: with validation disabled in the configuration read at the
\* invocation, create-branch and create-commit only notify the human: no
\* prompt is opened, the git runner is not called and nothing is validated;
\* validate-current validates the current branch against the convention
\* whatever the flag says.
DisabledCommandsOnlyNotify ==
    /\ \A i \in 1..Len(inflight) :
          inflight[i].cmd \in PromptCommands => ~Disabled(inflight[i].cmd, inflight[i].config)
    /\ (done.cmd \in PromptCommands /\ Disabled(done.cmd, done.config)) =>
          /\ ~done.prompted
          /\ done.runs = 0
          /\ done.valid = "none"
          /\ Len(done.shown) = 1
          /\ done.shown[1].text \in
                IF done.cmd = "createBranch" /\ ~done.workspace
                THEN {"No workspace folder found"}
                ELSE DisabledTexts
    /\ (done.cmd = "validateCurrentBranch" /\ done.input # <<>>) =>
          /\ done.valid \in {"ok", "bad"}
          /\ (done.valid = "ok")
                <=> validateBranchName(done.input, done.config.branchPattern, done.config).ok
          /\ done.valid = "bad" => Texts(done.shown) \cap MismatchTexts # {}

\* C28, witness: create-branch was invoked with a workspace open and branch
\* validation disabled, and has returned after the notification alone.
DisabledCreateBranchReturned ==
    /\ done.cmd = "createBranch"
    /\ done.workspace
    /\ ~done.config.enableBranchValidation
    /\ done.shown = <<Message("Branch validation is disabled", <<>>)>>
    /\ ~done.prompted
    /\ inflight = <<>>

=============================================================================
